---- MODULE Spec2Model ----
(***************************************************************************)
(* Model of the unused-dependency cleaner: Analyzer (src/src/analyzer.ts), *)
(* Cleaner (src/src/cleaner.ts) and the two CLI commands (src/src/cli.ts). *)
(*                                                                         *)
(* Strings are sequences of atoms.  The atoms "@", "/", "." and "_" are    *)
(* the single characters the code inspects; every other atom stands for a  *)
(* run of ordinary characters ("react", "lodash", ...).  No concatenation  *)
(* of word atoms spells another atom, so two sequences are equal exactly   *)
(* when the strings they stand for are equal.                              *)
(***************************************************************************)
EXTENDS Integers, Sequences, FiniteSets, TLC

VARIABLES
    pkgJson,        \* the file <rootDir>/package.json
    pkgBak,         \* the file <rootDir>/package.json.bak
    checkDevDeps,   \* Analyzer.checkDevDeps
    ignore,         \* Analyzer.ignore
    pc,             \* position of the running command / call
    entry,          \* which entry point is running
    nFiles,         \* number of files in the list given to findUsedDependencies
    fileIdx,        \* index of the file the loop is at
    refCount,       \* visitor calls made on the current file
    used,           \* the local Set `used` of findUsedDependencies
    usedAfterFiles, \* value of `used` when the file loop ended
    node,           \* NormSpec only: the node the visitor is run on
    log,            \* files for which logger.warn was called, in order
    deps,           \* `deps` of analyze(): the declared names, in key order
    usedDeps,       \* `usedDeps` of analyze(): the set findUsedDependencies returned
    results,        \* the verdicts analyze() returned
    findOutcome,    \* how findUsedDependencies ended: "none", "returned", "threw"
    exitCode,       \* process exit signal of the CLI command
    toRemove,       \* argument of Cleaner.removeDependencies
    origPkg,        \* package.json as it was when the command or call began
    origBak,        \* package.json.bak as it was when the command or call began
    backedUp,       \* TRUE once backupPackageJson has completed in this call
    pkg             \* the object `pkg` of removeDependencies

vars == <<pkgJson, pkgBak, checkDevDeps, ignore, pc, entry, nFiles, fileIdx,
          refCount, used, usedAfterFiles, node, log, deps, usedDeps,
          results, findOutcome, exitCode, toRemove, origPkg, origBak, backedUp,
          pkg>>

(***************************************************************************)
(* Bounds                                                                  *)
(***************************************************************************)
MaxFiles == 2
MaxRefs == 2
MaxSpecLen == 6

(***************************************************************************)
(* String helpers (JavaScript String methods used by the code)             *)
(***************************************************************************)
\* String.prototype.startsWith with a one-character argument
StartsWith(s, c) == Len(s) > 0 /\ s[1] = c

\* position of the first occurrence of atom c in s, 0 when there is none
RECURSIVE IndexFrom(_, _, _)
IndexFrom(s, c, i) ==
    IF i > Len(s) THEN 0
    ELSE IF s[i] = c THEN i
    ELSE IndexFrom(s, c, i + 1)

IndexOf(s, c) == IndexFrom(s, c, 1)

\* String.prototype.split('/'): always at least one part
RECURSIVE Split(_)
Split(s) ==
    LET i == IndexOf(s, "/")
    IN  IF i = 0 THEN <<s>>
        ELSE <<SubSeq(s, 1, i - 1)>> \o Split(SubSeq(s, i + 1, Len(s)))

\* String.prototype.replace(c, r) with a string pattern: first occurrence only
Replace(s, c, r) ==
    LET i == IndexOf(s, c)
    IN  IF i = 0 THEN s
        ELSE SubSeq(s, 1, i - 1) \o r \o SubSeq(s, i + 1, Len(s))

\* IsAbsolute when the check of line 153 is missing
IsAbsoluteNever(s) == FALSE

\* path.isAbsolute (POSIX): the path starts with '/'
IsAbsolute(s) == StartsWith(s, "/")

(***************************************************************************)
(* Analyzer.addDependency                                                  *)
(***************************************************************************)
\* PkgName when an unscoped path is not cut at its first '/'
PkgNameWholeUnscoped(importPath) ==
    LET parts == Split(importPath)
    IN  IF StartsWith(importPath, "@")
        THEN IF Len(parts) >= 2
             THEN parts[1] \o <<"/">> \o parts[2]
             ELSE importPath
        ELSE importPath

\* pkgName as computed by lines 156-167
PkgName(importPath) ==
    LET parts == Split(importPath)
    IN  IF StartsWith(importPath, "@")
        THEN IF Len(parts) >= 2
             THEN parts[1] \o <<"/">> \o parts[2]
             ELSE importPath
        ELSE IF Len(parts) > 0 THEN parts[1] ELSE importPath

\* `@types/${pkgName.replace('@', '').replace('/', '__')}`
TypesName(pkgName) ==
    <<"@", "types", "/">> \o Replace(Replace(pkgName, "@", <<>>), "/", <<"_", "_">>)

\* AddDependency without the set.add of line 176
AddDependencyNoTypes(set, importPath) ==
    IF StartsWith(importPath, ".") THEN set
    ELSE IF IsAbsolute(importPath) THEN set
    ELSE set \cup {PkgName(importPath)}

\* the set after addDependency(set, importPath)
AddDependency(set, importPath) ==
    IF StartsWith(importPath, ".") THEN set
    ELSE IF IsAbsolute(importPath) THEN set
    ELSE set \cup {PkgName(importPath), TypesName(PkgName(importPath))}

(***************************************************************************)
(* Package names and module specifiers of the modelled projects            *)
(***************************************************************************)
react == <<"react">>
reactDom == <<"react-dom">>
lodash == <<"lodash">>
leftpad == <<"leftpad">>
typescript == <<"typescript">>
typesLodash == <<"@", "types", "/", "lodash">>
typesNode == <<"@", "types", "/", "node">>
tsNode == <<"ts-node">>
acmeButton == <<"@", "acme", "/", "button">>
acmeIcons == <<"@", "acme", "/", "icons">>
acmeUiX == <<"@", "acme", "-ui", "/", "x">>

\* string literals that occur as module specifiers in the scanned files
ImportSpecifiers ==
    { react,
      <<"lodash", "/", "fp">>,
      <<"@", "acme", "/", "button", "/", "lib">>,
      <<"@", "org">>,
      <<".", "/", "local">>,
      <<"/", "abs", "/", "x">> }

\* the atoms of the specifiers addDependency is tried on: every string of at
\* most MaxSpecLen of them
SpecAtoms == {"@", "/", ".", "a"}

(***************************************************************************)
(* package.json                                                            *)
(***************************************************************************)
DepTypes == <<"dependencies", "devDependencies", "peerDependencies", "optionalDependencies">>

Entry(n) == [name |-> n, range |-> "*"]

\* the parsed manifests; a section that is absent is not in the DOMAIN
PkgLodash ==
    [dependencies |-> <<Entry(lodash), Entry(typesLodash), Entry(leftpad)>>]

PkgReact ==
    [dependencies |-> <<Entry(react), Entry(reactDom)>>,
     devDependencies |-> <<Entry(acmeIcons), Entry(typescript), Entry(react)>>]

PkgAcme ==
    [dependencies |-> <<Entry(acmeButton), Entry(acmeIcons), Entry(acmeUiX)>>,
     devDependencies |-> <<>>,
     peerDependencies |-> <<Entry(react), Entry(acmeUiX)>>,
     optionalDependencies |-> <<[name |-> leftpad, range |-> ""]>>]

Manifests == {PkgLodash, PkgReact, PkgAcme}

\* a file on disk: state "missing" (no such file), "invalid" (not JSON) or
\* "ok" with the parsed content
File(state, content) == [state |-> state, json |-> content]

NoFile == File("missing", [dependencies |-> <<>>])

BadFile == File("invalid", [dependencies |-> <<>>])

\* the keys of pkg[depType], in order; {...undefined} has no keys
Keys(p, depType) ==
    IF depType \in DOMAIN p
    THEN [i \in 1..Len(p[depType]) |-> p[depType][i].name]
    ELSE <<>>

Range(seq) == {seq[i] : i \in 1..Len(seq)}

\* the elements of seq that are in S, in order
RECURSIVE Filter(_, _)
Filter(seq, S) ==
    IF seq = <<>> THEN <<>>
    ELSE IF seq[1] \in S THEN <<seq[1]>> \o Filter(Tail(seq), S)
    ELSE Filter(Tail(seq), S)

\* the keys of { ...a, ...b }: those of a, then those of b not in a
SpreadKeys(a, b) == a \o Filter(b, Range(b) \ Range(a))

\* Analyzer.getDependencies on a readable manifest: the keys of the result
GetDependencies(p, dev) ==
    IF dev
    THEN SpreadKeys(Keys(p, "dependencies"), Keys(p, "devDependencies"))
    ELSE Keys(p, "dependencies")

\* getDependencies throws: no package.json, or readJSON rejects
GetDependenciesThrows(file) == file.state # "ok"

(***************************************************************************)
(* config.ts                                                               *)
(***************************************************************************)
defaultIgnore == {typesNode, typescript, tsNode}

\* the ignore lists loadConfig can hand to the Analyzer
IgnoreLists == {defaultIgnore, defaultIgnore \cup {leftpad}}

(***************************************************************************)
(* The syntax nodes the traversal reacts to                                *)
(***************************************************************************)
Node(type, callee, literal, value) ==
    [type |-> type, callee |-> callee, literal |-> literal, value |-> value]

NoRef == Node("none", "none", FALSE, <<>>)

\* the kinds of node: `literal` says that the source clause (or the first
\* argument) is present and a string literal
NodeShapes ==
    { [type |-> "ImportDeclaration", callee |-> "none", literal |-> TRUE],
      [type |-> "CallExpression", callee |-> "require", literal |-> TRUE],
      [type |-> "CallExpression", callee |-> "require", literal |-> FALSE],
      [type |-> "CallExpression", callee |-> "Import", literal |-> TRUE],
      [type |-> "CallExpression", callee |-> "Import", literal |-> FALSE],
      [type |-> "CallExpression", callee |-> "other", literal |-> TRUE],
      [type |-> "ExportNamedDeclaration", callee |-> "none", literal |-> TRUE],
      [type |-> "ExportNamedDeclaration", callee |-> "none", literal |-> FALSE],
      [type |-> "ExportAllDeclaration", callee |-> "none", literal |-> TRUE] }

\* the node of shape sh whose string literal, when it has one, is s
NodeOf(sh, s) == Node(sh.type, sh.callee, sh.literal, IF sh.literal THEN s ELSE <<>>)

\* the visitors of traverse(ast, {...}): the set after visiting node n
Visit(set, n) ==
    IF n.type = "ImportDeclaration" THEN AddDependency(set, n.value)
    ELSE IF n.type = "CallExpression"
    THEN IF n.callee = "require" \/ n.callee = "Import"
         THEN IF n.literal THEN AddDependency(set, n.value) ELSE set
         ELSE set
    ELSE IF n.type = "ExportNamedDeclaration"
    THEN IF n.literal THEN AddDependency(set, n.value) ELSE set
    ELSE IF n.type = "ExportAllDeclaration"
    THEN IF n.literal THEN AddDependency(set, n.value) ELSE set
    ELSE set

(***************************************************************************)
(* Initial state: a project directory, the options and no command running  *)
(***************************************************************************)
Init ==
    /\ pkgJson \in {File("ok", m) : m \in Manifests} \cup {NoFile, BadFile}
    /\ pkgBak \in {NoFile, File("ok", PkgLodash)}
    /\ checkDevDeps \in BOOLEAN
    /\ ignore \in IgnoreLists
    /\ pc = "idle"
    /\ entry = "none"
    /\ nFiles = 0
    /\ fileIdx = 0
    /\ refCount = 0
    /\ used = {}
    /\ usedAfterFiles = {}
    /\ node = NoRef
    /\ log = <<>>
    /\ deps = <<>>
    /\ usedDeps = {}
    /\ results = <<>>
    /\ findOutcome = "none"
    /\ exitCode = "running"
    /\ toRemove = <<>>
    /\ origPkg = pkgJson
    /\ origBak = pkgBak
    /\ backedUp = FALSE
    /\ pkg = [dependencies |-> <<>>]

fsVars == <<pkgJson, pkgBak, origPkg, origBak>>
optVars == <<checkDevDeps, ignore>>
findVars == <<nFiles, fileIdx, refCount, used, usedAfterFiles, node, log, findOutcome>>
analyzeVars == <<deps, usedDeps, results>>
cleanerVars == <<toRemove, backedUp, pkg>>

\* an error that leaves the running call: the CLI's catch block (process.exit(1)),
\* or the rejected promise of a direct call
Throw ==
    IF entry \in {"scan", "clean"}
    THEN pc' = "exited" /\ exitCode' = "failure"
    ELSE pc' = "threw" /\ exitCode' = exitCode

\* normal completion of the running command or direct call
Return ==
    IF entry \in {"scan", "clean"}
    THEN pc' = "exited" /\ exitCode' = "success"
    ELSE pc' = "done" /\ exitCode' = exitCode

(***************************************************************************)
(* Entry points                                                            *)
(***************************************************************************)
\* `unused-dep-clean scan`
ScanCommand ==
    /\ pc = "idle"
    /\ entry' = "scan"
    /\ pc' = "analyze"
    /\ UNCHANGED <<fsVars, optVars, findVars, analyzeVars, cleanerVars, exitCode>>

\* `unused-dep-clean clean [packageName]`
CleanCommand ==
    /\ pc = "idle"
    /\ entry' = "clean"
    /\ pc' = "analyze"
    /\ UNCHANGED <<fsVars, optVars, findVars, analyzeVars, cleanerVars, exitCode>>

\* a direct call of findUsedDependencies(files) with a list of n files
FindUsedDependenciesCall(n) ==
    /\ pc = "idle"
    /\ entry' = "find"
    /\ nFiles' = n
    /\ fileIdx' = 1
    /\ used' = {}
    /\ pc' = "loop"
    /\ UNCHANGED <<fsVars, optVars, refCount, usedAfterFiles, node, log,
                   findOutcome, analyzeVars, cleanerVars, exitCode>>

(***************************************************************************)
(* Analyzer.analyze, first half                                            *)
(***************************************************************************)
\* const deps = await this.getDependencies()
AnalyzeGetDependencies ==
    /\ pc = "analyze"
    /\ ~GetDependenciesThrows(pkgJson)
    /\ deps' = GetDependencies(pkgJson.json, checkDevDeps)
    /\ pc' = "getSourceFiles"
    /\ UNCHANGED <<fsVars, optVars, entry, findVars, usedDeps, results,
                   cleanerVars, exitCode>>

\* getDependencies throws: 'package.json not found' or unreadable JSON
AnalyzeManifestError ==
    /\ pc = "analyze"
    /\ GetDependenciesThrows(pkgJson)
    /\ Throw
    /\ UNCHANGED <<fsVars, optVars, entry, findVars, analyzeVars, cleanerVars>>

\* const files = await this.getSourceFiles(); findUsedDependencies(files) begins
GetSourceFiles(n) ==
    /\ pc = "getSourceFiles"
    /\ nFiles' = n
    /\ fileIdx' = 1
    /\ used' = {}
    /\ pc' = "loop"
    /\ UNCHANGED <<fsVars, optVars, entry, refCount, usedAfterFiles, node,
                   log, findOutcome, analyzeVars, cleanerVars, exitCode>>

(***************************************************************************)
(* Analyzer.findUsedDependencies: the loop over the files                  *)
(***************************************************************************)
\* CatchFileError when the error is logged and thrown again
CatchFileErrorRethrown(message) ==
    /\ log' = Append(log, [file |-> fileIdx, message |-> message])
    /\ fileIdx' = fileIdx
    /\ Throw
    /\ UNCHANGED <<used, refCount, node>>

\* the catch block: logger.warn, then on to the next file
CatchFileError(message) ==
    /\ log' = Append(log, [file |-> fileIdx, message |-> message])
    /\ fileIdx' = fileIdx + 1
    /\ pc' = "loop"
    /\ UNCHANGED <<used, refCount, node, exitCode>>

\* fs.readFile rejects
ReadFileFails ==
    /\ pc = "loop"
    /\ fileIdx <= nFiles
    /\ CatchFileError("read error")
    /\ UNCHANGED <<fsVars, optVars, entry, nFiles, usedAfterFiles, findOutcome,
                   analyzeVars, cleanerVars>>

\* parse() throws (or traverse throws while it sets up the program scope)
ParseFails ==
    /\ pc = "loop"
    /\ fileIdx <= nFiles
    /\ CatchFileError("syntax error")
    /\ UNCHANGED <<fsVars, optVars, entry, nFiles, usedAfterFiles, findOutcome,
                   analyzeVars, cleanerVars>>

\* the file was read and parsed; the traversal starts
ParseOk ==
    /\ pc = "loop"
    /\ fileIdx <= nFiles
    /\ pc' = "traverse"
    /\ refCount' = 0
    /\ UNCHANGED <<fsVars, optVars, entry, nFiles, fileIdx, used, usedAfterFiles,
                   node, log, findOutcome, analyzeVars, cleanerVars, exitCode>>

\* the traversal reaches node n and runs its visitor
VisitNode(n) ==
    /\ pc = "traverse"
    /\ refCount < MaxRefs
    /\ used' = Visit(used, n)
    /\ refCount' = refCount + 1
    /\ UNCHANGED <<fsVars, optVars, pc, entry, nFiles, fileIdx, usedAfterFiles,
                   node, log, findOutcome, analyzeVars, cleanerVars, exitCode>>

\* traverse returns: the file is done
TraverseDone ==
    /\ pc = "traverse"
    /\ fileIdx' = fileIdx + 1
    /\ refCount' = 0
    /\ pc' = "loop"
    /\ UNCHANGED <<fsVars, optVars, entry, nFiles, used, usedAfterFiles,
                   node, log, findOutcome, analyzeVars, cleanerVars, exitCode>>

(***************************************************************************)
(* Analyzer.findUsedDependencies: the heuristics after the loop            *)
(***************************************************************************)
\* WithReactDom without the special handling
WithReactDomDropped(set) == set

\* if (used.has('react')) used.add('react-dom')
WithReactDom(set) == IF react \in set THEN set \cup {reactDom} ELSE set

\* the scope of a name that starts with '@': split('/')[0]
Scope(name) == Split(name)[1]

\* usedScopes, lines 124-130
UsedScopes(set) == {Scope(u) : u \in {x \in set : StartsWith(x, "@")}}

\* a declared name that the forEach of lines 138-145 adds
InUsedScope(dep, scopes) == StartsWith(dep, "@") /\ Scope(dep) \in scopes

\* WithSharedScopes when the forEach compares the whole name with the scope
WithSharedScopesWholeName(set, depNames) ==
    set \cup {d \in Range(depNames) : d \in UsedScopes(set)}

\* the set after lines 138-145, for the declared names depNames
WithSharedScopes(set, depNames) ==
    set \cup {d \in Range(depNames) : InUsedScope(d, UsedScopes(set))}

\* lines 114-119, after the last file
ReactDomHeuristic ==
    /\ pc = "loop"
    /\ fileIdx > nFiles
    /\ usedAfterFiles' = used
    /\ used' = WithReactDom(used)
    /\ pc' = "scopes"
    /\ UNCHANGED <<fsVars, optVars, entry, nFiles, fileIdx, refCount, node,
                   log, findOutcome, analyzeVars, cleanerVars, exitCode>>

\* lines 121-148 when getDependencies is not called or resolves: return used
ScopeSharing ==
    /\ pc = "scopes"
    /\ UsedScopes(used) = {} \/ ~GetDependenciesThrows(pkgJson)
    /\ used' = IF UsedScopes(used) = {} THEN used
               ELSE WithSharedScopes(used, GetDependencies(pkgJson.json, checkDevDeps))
    /\ findOutcome' = "returned"
    /\ IF entry = "find"
       THEN Return /\ usedDeps' = usedDeps
       ELSE pc' = "verdicts" /\ usedDeps' = used' /\ exitCode' = exitCode
    /\ UNCHANGED <<fsVars, optVars, entry, nFiles, fileIdx, refCount,
                   usedAfterFiles, node, log, deps, results, cleanerVars>>

\* line 137: a scope is used and getDependencies throws
ScopeSharingThrows ==
    /\ pc = "scopes"
    /\ UsedScopes(used) # {}
    /\ GetDependenciesThrows(pkgJson)
    /\ findOutcome' = "threw"
    /\ Throw
    /\ UNCHANGED <<fsVars, optVars, entry, nFiles, fileIdx, refCount, used,
                   usedAfterFiles, node, log, analyzeVars, cleanerVars>>

(***************************************************************************)
(* Analyzer.analyze, second half                                           *)
(***************************************************************************)
\* Verdict without the ignore check
VerdictIgnoreDropped(name, ignored, usedSet) ==
    [name |-> name, isUsed |-> name \in usedSet, filesUsedIn |-> <<>>]

\* the verdict of lines 188-200 for one declared name
Verdict(name, ignored, usedSet) ==
    IF name \in ignored
    THEN [name |-> name, isUsed |-> TRUE, filesUsedIn |-> <<"(ignored)">>]
    ELSE [name |-> name, isUsed |-> name \in usedSet, filesUsedIn |-> <<>>]

\* return Object.keys(deps).map(...)
AnalyzeVerdicts ==
    /\ pc = "verdicts"
    /\ results' = [i \in 1..Len(deps) |-> Verdict(deps[i], ignore, usedDeps)]
    /\ pc' = "analyzed"
    /\ UNCHANGED <<fsVars, optVars, entry, findVars, deps, usedDeps,
                   cleanerVars, exitCode>>

(***************************************************************************)
(* cli.ts: the rest of the two commands                                    *)
(***************************************************************************)
\* results.filter(r => !r.isUsed).map(r => r.name)
RECURSIVE UnusedNames(_)
UnusedNames(rs) ==
    IF rs = <<>> THEN <<>>
    ELSE IF rs[1].isUsed THEN UnusedNames(Tail(rs))
    ELSE <<rs[1].name>> \o UnusedNames(Tail(rs))

\* scan: print the unused names
ScanReport ==
    /\ pc = "analyzed"
    /\ entry = "scan"
    /\ Return
    /\ UNCHANGED <<fsVars, optVars, entry, findVars, analyzeVars, cleanerVars>>

\* the values of [packageName] tried; the empty string is "not given"
PackageNames == {<<>>, leftpad, react}

\* clean: lines 88-113 up to the call of removeDependencies
CleanSelect(packageName, dryRun) ==
    LET unused == UnusedNames(results)
        target == IF packageName # <<>> THEN <<packageName>> ELSE unused
    IN  /\ pc = "analyzed"
        /\ entry = "clean"
        /\ IF packageName # <<>> /\ packageName \notin Range(unused)
           THEN Return /\ toRemove' = toRemove
           ELSE IF Len(target) = 0
           THEN Return /\ toRemove' = toRemove
           ELSE IF dryRun
           THEN Return /\ toRemove' = toRemove
           ELSE pc' = "remove" /\ toRemove' = target /\ exitCode' = exitCode
        /\ UNCHANGED <<fsVars, optVars, entry, findVars, analyzeVars, backedUp, pkg>>

(***************************************************************************)
(* Cleaner                                                                 *)
(***************************************************************************)
\* the lists a direct caller passes to removeDependencies
RemoveLists == {<<>>, <<leftpad>>, <<acmeUiX, react>>}

\* a direct call of removeDependencies(list)
RemoveDependenciesCall(list) ==
    /\ pc = "idle"
    /\ entry' = "remove"
    /\ toRemove' = list
    /\ pc' = "remove"
    /\ UNCHANGED <<fsVars, optVars, findVars, analyzeVars, backedUp, pkg, exitCode>>

\* if (dependenciesToRemove.length === 0) return
RemoveNothing ==
    /\ pc = "remove"
    /\ Len(toRemove) = 0
    /\ Return
    /\ UNCHANGED <<fsVars, optVars, entry, findVars, analyzeVars, cleanerVars>>

\* Backup when nothing is copied
BackupSkipped ==
    /\ pc = "remove"
    /\ Len(toRemove) # 0
    /\ pkgJson.state # "missing"
    /\ pkgBak' = pkgBak
    /\ backedUp' = TRUE
    /\ pc' = "readJSON"
    /\ UNCHANGED <<pkgJson, origPkg, origBak, optVars, entry, findVars,
                   analyzeVars, toRemove, pkg, exitCode>>

\* backupPackageJson: fs.copy(package.json, package.json.bak) succeeds
Backup ==
    /\ pc = "remove"
    /\ Len(toRemove) # 0
    /\ pkgJson.state # "missing"
    /\ pkgBak' = pkgJson
    /\ backedUp' = TRUE
    /\ pc' = "readJSON"
    /\ UNCHANGED <<pkgJson, origPkg, origBak, optVars, entry, findVars,
                   analyzeVars, toRemove, pkg, exitCode>>

\* fs.copy rejects: no source, or an I/O error that may leave a partial copy
BackupFails(partial) ==
    /\ pc = "remove"
    /\ Len(toRemove) # 0
    /\ pkgBak' = IF partial /\ pkgJson.state # "missing" THEN BadFile ELSE pkgBak
    /\ Throw
    /\ UNCHANGED <<pkgJson, origPkg, origBak, optVars, entry, findVars,
                   analyzeVars, cleanerVars>>

\* one section after the inner forEach: an entry goes when its name is in the
\* list and its value is truthy
RECURSIVE StripSection(_, _)
StripSection(entries, list) ==
    IF entries = <<>> THEN <<>>
    ELSE IF entries[1].name \in Range(list) /\ entries[1].range # ""
    THEN StripSection(Tail(entries), list)
    ELSE <<entries[1]>> \o StripSection(Tail(entries), list)

\* pkg after lines 29-42: sections left empty are deleted
Strip(p, list) ==
    LET kept == {t \in DOMAIN p : StripSection(p[t], list) # <<>>}
    IN  [t \in kept |-> StripSection(p[t], list)]

\* const pkg = await fs.readJSON(pkgPath), then lines 27-42
ReadJSON ==
    /\ pc = "readJSON"
    /\ pkgJson.state = "ok"
    /\ pkg' = Strip(pkgJson.json, toRemove)
    /\ pc' = "writeJSON"
    /\ UNCHANGED <<fsVars, optVars, entry, findVars, analyzeVars, toRemove,
                   backedUp, exitCode>>

\* fs.readJSON rejects: package.json is not JSON
ReadJSONFails ==
    /\ pc = "readJSON"
    /\ pkgJson.state # "ok"
    /\ Throw
    /\ UNCHANGED <<fsVars, optVars, entry, findVars, analyzeVars, cleanerVars>>

\* await fs.writeJSON(pkgPath, pkg, { spaces: 2 })
WriteJSON ==
    /\ pc = "writeJSON"
    /\ pkgJson' = File("ok", pkg)
    /\ Return
    /\ UNCHANGED <<pkgBak, origPkg, origBak, optVars, entry, findVars,
                   analyzeVars, cleanerVars>>

\* fs.writeJSON rejects, before or after the file was truncated
WriteJSONFails(truncated) ==
    /\ pc = "writeJSON"
    /\ pkgJson' = IF truncated THEN BadFile ELSE pkgJson
    /\ Throw
    /\ UNCHANGED <<pkgBak, origPkg, origBak, optVars, entry, findVars,
                   analyzeVars, cleanerVars>>

(***************************************************************************)
(* The commands and calls on one project                                   *)
(***************************************************************************)
Next ==
    \/ ScanCommand
    \/ CleanCommand
    \/ \E n \in 0..MaxFiles : FindUsedDependenciesCall(n)
    \/ \E list \in RemoveLists : RemoveDependenciesCall(list)
    \/ AnalyzeGetDependencies
    \/ AnalyzeManifestError
    \/ \E n \in 0..MaxFiles : GetSourceFiles(n)
    \/ ReadFileFails
    \/ ParseFails
    \/ ParseOk
    \/ \E sh \in NodeShapes, s \in ImportSpecifiers : VisitNode(NodeOf(sh, s))
    \/ TraverseDone
    \/ ReactDomHeuristic
    \/ ScopeSharing
    \/ ScopeSharingThrows
    \/ AnalyzeVerdicts
    \/ ScanReport
    \/ \E packageName \in PackageNames, dryRun \in BOOLEAN : CleanSelect(packageName, dryRun)
    \/ RemoveNothing
    \/ Backup
    \/ \E partial \in BOOLEAN : BackupFails(partial)
    \/ ReadJSON
    \/ ReadJSONFails
    \/ WriteJSON
    \/ \E truncated \in BOOLEAN : WriteJSONFails(truncated)

Spec == Init /\ [][Next]_vars

(***************************************************************************)
(* addDependency on its own: one visitor call on an arbitrary node         *)
(***************************************************************************)
NormInit ==
    /\ pkgJson = File("ok", PkgLodash)
    /\ pkgBak = NoFile
    /\ checkDevDeps = FALSE
    /\ ignore = defaultIgnore
    /\ pc = "norm"
    /\ entry = "visitor"
    /\ nFiles = 1
    /\ fileIdx = 1
    /\ refCount = 0
    /\ used = {}
    /\ usedAfterFiles = {}
    /\ \E sh \in NodeShapes, n \in 0..MaxSpecLen : \E s \in [1..n -> SpecAtoms] :
          node = NodeOf(sh, s)
    /\ log = <<>>
    /\ deps = <<>>
    /\ usedDeps = {}
    /\ results = <<>>
    /\ findOutcome = "none"
    /\ exitCode = "running"
    /\ toRemove = <<>>
    /\ origPkg = pkgJson
    /\ origBak = pkgBak
    /\ backedUp = FALSE
    /\ pkg = [dependencies |-> <<>>]

\* the visitor of node runs once on the fresh set
NormVisit ==
    /\ pc = "norm"
    /\ used' = Visit(used, node)
    /\ refCount' = refCount + 1
    /\ pc' = "normDone"
    /\ UNCHANGED <<fsVars, optVars, entry, nFiles, fileIdx, usedAfterFiles,
                   node, log, findOutcome, analyzeVars, cleanerVars, exitCode>>

NormNext == NormVisit

NormSpec == NormInit /\ [][NormNext]_vars

(***************************************************************************)
(* Properties                                                              *)
(***************************************************************************)
\* s starts with the string p
IsPrefix(p, s) == Len(p) <= Len(s) /\ SubSeq(s, 1, Len(p)) = p

\* name is the scope sc itself or a package sc/...
InScope(name, sc) == name = sc \/ IsPrefix(sc \o <<"/">>, name)

\* the scope prefixes @scope that occur among the identifiers of set
ScopePrefixes(set) ==
    {sc \in UNION {{SubSeq(u, 1, k) : k \in 1..Len(u)} : u \in set} :
        /\ StartsWith(sc, "@")
        /\ IndexOf(sc, "/") = 0
        /\ \E u \in set : InScope(u, sc)}

\* the verdicts analyze() has returned
Verdicts == Range(results)

\* C1: every verdict is used exactly when its name is in the ignore set or in
\* the set findUsedDependencies returned.
C1_VerdictIffIgnoredOrUsed ==
    \A v \in Verdicts : v.isUsed <=> (v.name \in ignore \/ v.name \in used)

\* a scan with one verdict used through the ignore set alone, one through
\* the usage set alone, and one unused
C1_Witness ==
    /\ findOutcome = "returned"
    /\ \E v \in Verdicts : v.isUsed /\ v.name \in ignore /\ v.name \notin used
    /\ \E v \in Verdicts : v.isUsed /\ v.name \notin ignore /\ v.name \in used
    /\ \E v \in Verdicts : ~v.isUsed

\* C2 as stated: every verdict whose name starts, as a string, with a scope
\* prefix found among the used identifiers after the file loop is used.
C2_NameStartsWithScope ==
    \A v \in Verdicts : \A sc \in ScopePrefixes(usedAfterFiles) :
        IsPrefix(sc, v.name) => v.isUsed

\* C2 amended: every verdict whose first '/'-separated segment is a scope
\* prefix found among the used identifiers after the file loop is used.
C2_SameScopeIsUsed ==
    \A v \in Verdicts : \A sc \in ScopePrefixes(usedAfterFiles) :
        InScope(v.name, sc) => v.isUsed

\* @acme/button/lib was referenced, @acme/icons never: @acme/icons is used
\* while @acme-ui/x is not
C2_Witness ==
    /\ acmeButton \in usedAfterFiles
    /\ acmeIcons \notin usedAfterFiles
    /\ \E v \in Verdicts : v.name = acmeIcons /\ v.isUsed
    /\ \E v \in Verdicts : v.name = acmeUiX /\ ~v.isUsed

\* the visitor has just run on node
Visited == refCount' = refCount + 1

\* the node carries a module specifier that the code extracts
IsReference(n) ==
    /\ n.literal
    /\ \/ n.type \in {"ImportDeclaration", "ExportNamedDeclaration", "ExportAllDeclaration"}
       \/ n.type = "CallExpression" /\ n.callee \in {"require", "Import"}

\* the specifier is a relative path or an absolute filesystem path
IsPath(s) == Len(s) > 0 /\ s[1] \in {".", "/"}

\* number of '/' among the first i atoms of s
SlashCount(s, i) == Cardinality({j \in 1..i : s[j] = "/"})

\* the part of s before its n-th '/', all of s when it has fewer
BeforeSlash(s, n) ==
    LET cut == {i \in 1..Len(s) : s[i] = "/" /\ SlashCount(s, i) = n}
    IN  IF cut = {} THEN s ELSE SubSeq(s, 1, (CHOOSE i \in cut : TRUE) - 1)

\* the canonical identifier of a specifier that is not a path
Canonical(s) == IF StartsWith(s, "@") THEN BeforeSlash(s, 2) ELSE BeforeSlash(s, 1)

\* p with its leading '@' stripped
StripLeadingAt(p) == IF StartsWith(p, "@") THEN Tail(p) ELSE p

\* '@types/' + (p with its leading '@' stripped and its '/' replaced by '__')
SyntheticTypes(p) ==
    <<"@", "types", "/">> \o Replace(StripLeadingAt(p), "/", <<"_", "_">>)

\* C3 as stated: after a reference that is not a path, with canonical
\* identifier p, the usage set contains '@types/' + p with its leading '@'
\* stripped and its '/' replaced by '__'.
C3_SyntheticTypesAdded ==
    [][(Visited /\ IsReference(node) /\ ~IsPath(node.value))
        => SyntheticTypes(Canonical(node.value)) \in used']_vars

\* C4: a reference whose specifier is a relative or an absolute path leaves
\* the usage set unchanged, whatever the syntax form of the node.
C4_PathAddsNothing ==
    [][(Visited /\ node.literal /\ IsPath(node.value)) => used' = used]_vars

\* require('./a') and export * from '/a' have been visited and the set is
\* still empty
C4_Witness ==
    /\ pc = "normDone"
    /\ used = {}
    /\ \/ /\ node.type = "CallExpression"
          /\ node.callee = "require"
          /\ node.literal
          /\ node.value = <<".", "/", "a">>
       \/ /\ node.type = "ExportAllDeclaration"
          /\ node.literal
          /\ node.value = <<"/", "a">>

\* C5 as stated: a reference whose specifier begins with '@' and has no '/'
\* adds nothing to the usage set.
C5_MalformedScopedAddsNothing ==
    [][(Visited /\ IsReference(node) /\ StartsWith(node.value, "@")
        /\ IndexOf(node.value, "/") = 0) => used' = used]_vars

\* C6: a reference '@s/p/...' adds the part before its second '/', an
\* unscoped reference that is not a path adds the part before its first '/',
\* and whatever else it adds is an '@types/' name.
C6_CanonicalIdentifier ==
    [][(Visited /\ IsReference(node) /\ ~IsPath(node.value)
        /\ (StartsWith(node.value, "@") => IndexOf(node.value, "/") # 0))
        => /\ Canonical(node.value) \in used'
           /\ \A x \in used' \ used :
                x = Canonical(node.value) \/ IsPrefix(<<"@", "types", "/">>, x)]_vars

\* '@a/a/a/a' was imported and gave '@a/a'; 'a/a' was required and gave 'a'
C6_Witness ==
    /\ pc = "normDone"
    /\ \/ /\ node.type = "ImportDeclaration"
          /\ node.value = <<"@", "a", "/", "a", "/", "a">>
          /\ <<"@", "a", "/", "a">> \in used
          /\ node.value \notin used
       \/ /\ node.type = "CallExpression"
          /\ node.callee = "require"
          /\ node.value = <<"a", "/", "a">>
          /\ <<"a">> \in used
          /\ node.value \notin used

\* C7: a file that cannot be read or parsed is logged and adds nothing, the
\* loop goes on to the next file and reaches the end of the list, and a scan
\* of a readable manifest ends with one verdict per declared name and the
\* success exit signal.
C7_FileFailureAbsorbed ==
    /\ [][Len(log') = Len(log) + 1
            => /\ used' = used
               /\ log'[Len(log')].file = fileIdx
               /\ fileIdx' = fileIdx + 1
               /\ pc' = "loop"
               /\ exitCode' = exitCode]_vars
    /\ [](findOutcome # "none" => fileIdx = nFiles + 1)
    /\ []((entry = "scan" /\ pc = "exited" /\ pkgJson.state = "ok")
            => /\ exitCode = "success"
               /\ Len(results) = Len(deps)
               /\ \A i \in 1..Len(deps) : results[i].name = deps[i])

\* a scan whose first file failed and whose second file added react ended
\* with verdicts and success
C7_Witness ==
    /\ entry = "scan"
    /\ pc = "exited"
    /\ exitCode = "success"
    /\ Len(log) = 1
    /\ log[1].file = 1
    /\ nFiles = 2
    /\ react \in usedAfterFiles
    /\ results # <<>>

\* C8 as stated: findUsedDependencies never ends by throwing.
C8_FindNeverThrows == findOutcome # "threw"

\* C9: when react is in the usage set after the file loop, react-dom is in
\* the set findUsedDependencies returns, and a verdict for react-dom is used.
C9_ReactImpliesReactDom ==
    /\ (findOutcome = "returned" /\ react \in usedAfterFiles) => reactDom \in used
    /\ \A v \in Verdicts : (v.name = reactDom /\ react \in usedAfterFiles) => v.isUsed

\* react was referenced, react-dom never, and the verdict of react-dom is used
C9_Witness ==
    /\ findOutcome = "returned"
    /\ react \in usedAfterFiles
    /\ reactDom \notin usedAfterFiles
    /\ \E v \in Verdicts : v.name = reactDom /\ v.isUsed

\* C10: while package.json is about to be or has been rewritten,
\* package.json.bak holds the original content; without a completed backup
\* package.json is unchanged; with an empty list both files are unchanged.
C10_BackupBeforeRewrite ==
    /\ (pc = "writeJSON" \/ pkgJson # origPkg) => (backedUp /\ pkgBak = origPkg)
    /\ ~backedUp => pkgJson = origPkg
    /\ Len(toRemove) = 0 => (pkgJson = origPkg /\ pkgBak = origBak)

\* the clean command removed names from package.json after backing it up over
\* an older backup
C10_Witness ==
    /\ entry = "clean"
    /\ pc = "exited"
    /\ exitCode = "success"
    /\ pkgJson.state = "ok"
    /\ pkgJson # origPkg
    /\ pkgBak = origPkg
    /\ pkgBak # origBak

\* the name is in the '@types' scope
IsTypesPackage(name) == IsPrefix(<<"@", "types", "/">>, name)

\* C11: once the file loop has added any identifier, that is once a reference
\* that is not a path was extracted, '@types' is among the used scopes and
\* every verdict for an '@types/...' name is used; such a verdict is unused
\* only when no reference was extracted at all.
C11_TypesScopeAlwaysShared ==
    /\ usedAfterFiles # {} => <<"@", "types">> \in ScopePrefixes(usedAfterFiles)
    /\ \A v \in Verdicts :
        (IsTypesPackage(v.name) /\ usedAfterFiles # {}) => v.isUsed
    /\ \A v \in Verdicts :
        (IsTypesPackage(v.name) /\ ~v.isUsed) => usedAfterFiles = {}

\* only react was referenced; @types/lodash is declared, not ignored, its
\* runtime package lodash was never referenced, and its verdict is used
C11_Witness ==
    /\ react \in usedAfterFiles
    /\ lodash \notin usedAfterFiles
    /\ typesLodash \notin usedAfterFiles
    /\ typesLodash \notin ignore
    /\ \E v \in Verdicts : v.name = typesLodash /\ v.isUsed
    /\ \E v \in Verdicts : v.name = lodash /\ ~v.isUsed

====
